---------------------------- MODULE Spec2Model ----------------------------
(* Model of the window-embedding engine of src-tauri/src/wallpaper.rs and   *)
(* of its callers in src-tauri/src/lib.rs.                                   *)
(*                                                                          *)
(* The program state is the process-wide STATE (a Mutex<WallpaperState>),   *)
(* the attributes the operating system keeps for each window (parent,       *)
(* style, extended style, rectangle) and the virtual-screen metrics.  The   *)
(* list of WorkerW windows the shell shows is drawn anew at every lookup.   *)
(* Every caller (the UI command handlers and the tray menu handler) runs    *)
(* set_as_wallpaper, restore_window or is_wallpaper_mode as a sequence of   *)
(* steps, one per group of statements of the function.  A window call on a  *)
(* valid window succeeds; on a handle that is no window it fails.           *)
EXTENDS Integers, Sequences, FiniteSets, TLC

VARIABLES
    callers,   \* per caller: position in the function it runs and its locals
    lock,      \* owner of the STATE mutex: <<>> (free) or <<c>>
    state,     \* the WallpaperState guarded by STATE
    windows,   \* OS attributes of every application window, by handle
    vscreen,   \* the virtual-screen metrics GetSystemMetrics reports
    entry,     \* history: <<>> or <<[state, windows]>> as they were when the lock holder acquired the lock
    session,   \* history: the most recent successful transition
    cycled,    \* history: an embed followed by a restore of the same window has completed
    ser,       \* history: [state, windows] after running the calls one at a time, in the order they took the lock
    probe      \* what a specification other than Spec records: the locator call by call, the answer of
               \* get_all_monitors, the commands of a non-Windows build, the count of failed window calls

vars == <<callers, lock, state, windows, vscreen, entry, session, cycled, ser, probe>>

-----------------------------------------------------------------------------
(* Bounds of the model *)

MaxWorkers == 3    \* longest list of WorkerW windows the shell shows

-----------------------------------------------------------------------------
(* Option<T>, Result<T, WallpaperError> *)

None == <<>>
Some(x) == <<x>>
Ok(v) == [tag |-> "Ok", val |-> v]
Err(e) == [tag |-> "Err", val |-> e]

-----------------------------------------------------------------------------
(* i32 bit patterns.  TLC integers are the i32 values themselves; \div and %  *)
(* floor, so a \div 2 is the arithmetic shift and a % 2 the lowest bit.      *)

\* bit i (0..31) of the i32 a
Bit(a, i) == IF i = 31 THEN (IF a < 0 THEN 1 ELSE 0) ELSE (a \div (2 ^ i)) % 2

\* a & !m for i32 a and a mask m >= 0, bit by bit from the lowest
AndNotBits[a \in Int, m \in Nat] ==
    IF a = 0 THEN 0
    ELSE IF a = -1 THEN -1 - m
    ELSE (IF a % 2 = 1 /\ m % 2 = 0 THEN 1 ELSE 0) + 2 * AndNotBits[a \div 2, m \div 2]

AndNot(a, m) == AndNotBits[a, m]

\* window style bits (WS_*), as `WS_X.0 as i32`
WS_CAPTION == 12582912        \* 0x00C00000
WS_THICKFRAME == 262144       \* 0x00040000
WS_MINIMIZEBOX == 131072      \* 0x00020000
WS_MAXIMIZEBOX == 65536       \* 0x00010000
WS_SYSMENU == 524288          \* 0x00080000
\* extended style bits (WS_EX_*)
WS_EX_DLGMODALFRAME == 1      \* 0x00000001
WS_EX_CLIENTEDGE == 512       \* 0x00000200
WS_EX_STATICEDGE == 131072    \* 0x00020000

-----------------------------------------------------------------------------
(* Handles *)

NULL == 0
Owner == 3                     \* a window that may be the parent of an application window
Callers == {"ui", "tray"}      \* the command handlers and the tray menu handler

\* handle of the i-th WorkerW of the enumeration
WorkerHandle(i) == 10 + i
WorkerIndex(h) == h - 10

RECT(l, t, r, b) == [left |-> l, top |-> t, right |-> r, bottom |-> b]
RectDefault == RECT(0, 0, 0, 0)

\* configurations a window may have before it is first embedded
WindowAttrs ==
    { \* WS_VISIBLE | WS_CLIPSIBLINGS | WS_OVERLAPPEDWINDOW (0x14CF0000), WS_EX_WINDOWEDGE
      [parent |-> NULL, style |-> 349110272, exStyle |-> 256, rect |-> RECT(100, 100, 900, 700)],
      \* WS_OVERLAPPEDWINDOW (0x00CF0000); DLGMODALFRAME | TOPMOST | WINDOWEDGE | CLIENTEDGE | STATICEDGE (0x00020309)
      [parent |-> NULL, style |-> 13565952, exStyle |-> 131849, rect |-> RECT(100, 100, 900, 700)],
      \* WS_POPUP | WS_VISIBLE | WS_CLIPSIBLINGS | WS_CLIPCHILDREN | WS_SYSMENU (0x96080000), with a parent
      [parent |-> Owner, style |-> -1777860608, exStyle |-> 512, rect |-> RECT(-200, 50, 600, 650)] }

\* (x, y, width, height) of the virtual screen: one monitor, and a second monitor left of the primary
VirtualScreens == { <<0, 0, 1920, 1080>>, <<-1920, 0, 3840, 1080>> }

\* every list of WorkerW windows of length <= MaxWorkers
Topologies == UNION { [1..n -> BOOLEAN] : n \in 0..MaxWorkers }

-----------------------------------------------------------------------------
(* The window calls of the operating system.  A call on a handle that is no *)
(* window fails: a read yields 0 / leaves the out-parameter alone, a write  *)
(* changes nothing.                                                         *)

IsWindow(wins, h) == h \in DOMAIN wins

GetParent(wins, h) == IF IsWindow(wins, h) THEN wins[h].parent ELSE NULL

GetWindowLongW_STYLE(wins, h) == IF IsWindow(wins, h) THEN wins[h].style ELSE 0

GetWindowLongW_EXSTYLE(wins, h) == IF IsWindow(wins, h) THEN wins[h].exStyle ELSE 0

GetWindowRect(wins, h, rect) == IF IsWindow(wins, h) THEN wins[h].rect ELSE rect

SetWindowLongW_STYLE(wins, h, v) ==
    IF IsWindow(wins, h) THEN [wins EXCEPT ![h].style = v] ELSE wins

SetWindowLongW_EXSTYLE(wins, h, v) ==
    IF IsWindow(wins, h) THEN [wins EXCEPT ![h].exStyle = v] ELSE wins

SetParent(wins, h, p) ==
    IF IsWindow(wins, h) THEN [wins EXCEPT ![h].parent = p] ELSE wins

SetWindowPos(wins, h, x, y, cx, cy) ==
    IF IsWindow(wins, h) THEN [wins EXCEPT ![h].rect = RECT(x, y, x + cx, y + cy)] ELSE wins

-----------------------------------------------------------------------------
(* Shell Window Locator *)

\* FindWindowExW(None, Some(after), "WorkerW", None): the WorkerW following `after`
\* in the enumeration (the first one when `after` is null), or null
FindWindowExW_WorkerW(ws, after) ==
    IF after = NULL
    THEN (IF Len(ws) >= 1 THEN WorkerHandle(1) ELSE NULL)
    ELSE (IF WorkerIndex(after) < Len(ws) THEN WorkerHandle(WorkerIndex(after) + 1) ELSE NULL)

\* FindWindowExW(Some(hwnd), None, "SHELLDLL_DefView", None) is not null
HasShellView(ws, hwnd) == ws[WorkerIndex(hwnd)]

RECURSIVE find_worker_w_loop(_, _)
\* the loop of find_worker_w, entered with the cursor `hwnd`; yields worker_w
find_worker_w_loop(ws, hwnd) ==
    LET next == FindWindowExW_WorkerW(ws, hwnd) IN
    IF next = NULL THEN NULL
    ELSE IF HasShellView(ws, next) THEN FindWindowExW_WorkerW(ws, next)
    ELSE find_worker_w_loop(ws, next)

find_worker_w(ws) ==
    LET worker_w == find_worker_w_loop(ws, NULL) IN
    IF worker_w = NULL THEN Err("WorkerWNotFound") ELSE Ok(worker_w)

\* find_progman: `found` is whether FindWindowW("Progman") yields a non-null window
find_progman(found) == IF found THEN Ok("Progman") ELSE Err("ProgmanNotFound")

\* the `?` chain of set_as_wallpaper: find_progman()?, spawn_worker_w(progman)?
\* (always Ok), the delay, find_worker_w()?  `ws` is the enumeration after the delay
LocateBackgroundHost(found, ws) ==
    IF find_progman(found).tag = "Err" THEN find_progman(found) ELSE find_worker_w(ws)

-----------------------------------------------------------------------------
(* The statements of set_as_wallpaper and restore_window on the state `st`   *)
(* and the windows `wins`                                                   *)

StateInit ==
    [is_active |-> FALSE, original_parent |-> None, original_style |-> 0,
     original_ex_style |-> 0, original_rect |-> None, worker_w |-> None]

\* a snapshot that forgets the rectangle
SnapshotWithoutRect(st, wins, h) ==
    [st EXCEPT !.original_parent = Some(GetParent(wins, h)),
               !.original_style = GetWindowLongW_STYLE(wins, h),
               !.original_ex_style = GetWindowLongW_EXSTYLE(wins, h)]

\* store the original parent, styles and rectangle
Snapshot(st, wins, h) ==
    [st EXCEPT !.original_parent = Some(GetParent(wins, h)),
               !.original_style = GetWindowLongW_STYLE(wins, h),
               !.original_ex_style = GetWindowLongW_EXSTYLE(wins, h),
               !.original_rect = Some(GetWindowRect(wins, h, RectDefault))]

\* a style mask that leaves the system menu
NewStyleKeepsSysMenu(st) ==
    AndNot(AndNot(AndNot(AndNot(st.original_style, WS_CAPTION), WS_THICKFRAME),
                  WS_MINIMIZEBOX), WS_MAXIMIZEBOX)

NewStyle(st) ==
    AndNot(AndNot(AndNot(AndNot(AndNot(st.original_style, WS_CAPTION), WS_THICKFRAME),
                         WS_MINIMIZEBOX), WS_MAXIMIZEBOX), WS_SYSMENU)

NewExStyle(st) ==
    AndNot(AndNot(AndNot(st.original_ex_style, WS_EX_DLGMODALFRAME), WS_EX_CLIENTEDGE),
           WS_EX_STATICEDGE)

\* remove window decorations and extended styles
StripStyles(st, wins, h) ==
    SetWindowLongW_EXSTYLE(SetWindowLongW_STYLE(wins, h, NewStyle(st)), h, NewExStyle(st))

\* set WorkerW as parent
Reparent(wins, h, worker_w) == SetParent(wins, h, worker_w)

\* resize the window to cover all monitors; vs is get_virtual_screen()
Resize(wins, h, vs) == SetWindowPos(wins, h, vs[1], vs[2], vs[3], vs[4])

Activate(st, worker_w) == [st EXCEPT !.worker_w = Some(worker_w), !.is_active = TRUE]

\* a restore that leaves the window under WorkerW
UnparentSkipped(wins, h) == wins

\* remove from WorkerW
Unparent(wins, h) == SetParent(wins, h, NULL)

\* restore the original style
RestoreStyles(st, wins, h) ==
    SetWindowLongW_EXSTYLE(SetWindowLongW_STYLE(wins, h, st.original_style), h,
                           st.original_ex_style)

\* a restore that passes the corners where SetWindowPos takes the size
RestoreRectByCorners(st, wins, h) ==
    IF st.original_rect # None
    THEN LET rect == st.original_rect[1] IN
         SetWindowPos(wins, h, rect.left, rect.top, rect.right, rect.bottom)
    ELSE wins

\* restore the original position and size
RestoreRect(st, wins, h) ==
    IF st.original_rect # None
    THEN LET rect == st.original_rect[1] IN
         SetWindowPos(wins, h, rect.left, rect.top, rect.right - rect.left,
                      rect.bottom - rect.top)
    ELSE wins

\* reset state
ResetState(st) ==
    [st EXCEPT !.is_active = FALSE, !.original_parent = None, !.original_rect = None,
               !.worker_w = None]

\* set_as_wallpaper run from its first to its last statement with nothing in between
set_as_wallpaper(m, h, loc, vs) ==
    IF m.state.is_active \/ loc.tag = "Err" THEN m
    ELSE LET s1 == Snapshot(m.state, m.windows, h)
             w1 == Resize(Reparent(StripStyles(s1, m.windows, h), h, loc.val), h, vs)
         IN  [state |-> Activate(s1, loc.val), windows |-> w1]

\* restore_window run from its first to its last statement with nothing in between
restore_window(m, h) ==
    IF ~m.state.is_active THEN m
    ELSE [state |-> ResetState(m.state),
          windows |-> RestoreRect(m.state, RestoreStyles(m.state, Unparent(m.windows, h), h), h)]

-----------------------------------------------------------------------------
(* Callers *)

Ops == {"set_as_wallpaper", "restore_window", "is_wallpaper_mode"}

\* a caller that runs none of the functions
Idle ==
    [pc |-> "idle", op |-> "none", hwnd |-> NULL, worker_w |-> NULL, res |-> "none",
     loc |-> "none", wasActive |-> FALSE, clean |-> TRUE]

NoSession ==
    [op |-> "none", hwnd |-> NULL, target |-> NULL, host |-> NULL, before |-> None,
     after |-> None, strayed |-> FALSE, again |-> FALSE, rivals |-> {}]

\* the handles a caller may pass (hwnd: isize): null or an application window
Hwnds == {NULL} \cup DOMAIN windows

Mem == [state |-> state, windows |-> windows]

AttrsOf(wins, h) == IF IsWindow(wins, h) THEN Some(wins[h]) ELSE None

InitCommon ==
    /\ lock = None
    /\ state = StateInit
    /\ entry = None
    /\ session = NoSession
    /\ cycled = FALSE
    /\ ser = Mem

\* the application's window, the UI commands and the tray menu
Init ==
    /\ callers = [c \in Callers |-> Idle]
    /\ \E a \in WindowAttrs : windows = [w \in {1} |-> a]
    /\ vscreen \in VirtualScreens
    /\ InitCommon
    /\ probe = None

\* two windows handed to the engine by one caller
InitWindows ==
    /\ callers = [c \in {"ui"} |-> Idle]
    /\ \E a \in WindowAttrs :
          windows = [w \in {1, 2} |->
                        IF w = 1 THEN a
                        ELSE [parent |-> NULL, style |-> 349110272, exStyle |-> 256,
                              rect |-> RECT(100, 100, 900, 700)]]
    /\ vscreen = <<-1920, 0, 3840, 1080>>
    /\ InitCommon
    /\ probe = None

\* a lock that excludes nobody
MutexFreeAlways == TRUE

\* STATE.lock(): the mutex can be taken
MutexFree == lock = None

\* a result is handed to its caller before anything else runs
NoReturnPending == \A d \in DOMAIN callers : callers[d].pc # "done"

\* a return that drops the MutexGuard only when the result is Ok
ReturnWithGuardLeaked(c, res, loc, old, new) ==
    /\ callers' = [callers EXCEPT ![c].pc = "done", ![c].res = res, ![c].loc = loc,
                                  ![c].wasActive = old.state.is_active,
                                  ![c].clean = (old = new)]
    /\ lock' = IF res = "Ok" THEN None ELSE lock
    /\ entry' = None

\* the function returns `res`: the MutexGuard is dropped and the caller holds the
\* result. `old` is the memory the call found, `new` the memory it leaves
ReturnWith(c, res, loc, old, new) ==
    /\ callers' = [callers EXCEPT ![c].pc = "done", ![c].res = res, ![c].loc = loc,
                                  ![c].wasActive = old.state.is_active,
                                  ![c].clean = (old = new)]
    /\ lock' = None
    /\ entry' = None

Entered == IF entry # None THEN entry[1] ELSE Mem

\* a command handler or the tray menu handler calls one of the three functions
Call(c) ==
    /\ callers[c].pc = "idle"
    /\ NoReturnPending
    /\ \E op \in Ops, h \in Hwnds :
          /\ op = "is_wallpaper_mode" => h = NULL
          /\ callers' = [callers EXCEPT ![c] = [Idle EXCEPT !.pc = "lock", !.op = op, !.hwnd = h]]
    /\ UNCHANGED <<lock, state, windows, vscreen, probe, entry, session, cycled, ser>>

\* set_as_wallpaper without the check of is_active
SawEnterUnchecked(c) ==
    /\ callers[c].pc = "lock"
    /\ callers[c].op = "set_as_wallpaper"
    /\ NoReturnPending
    /\ MutexFree
    /\ callers' = [callers EXCEPT ![c].pc = "locate"]
    /\ lock' = Some(c)
    /\ entry' = Some(Mem)
    /\ UNCHANGED <<state, windows, vscreen, probe, session, cycled, ser>>

\* a set_as_wallpaper that stores the original state before it checks is_active
SawEnterSnapshotFirst(c) ==
    /\ callers[c].pc = "lock"
    /\ callers[c].op = "set_as_wallpaper"
    /\ NoReturnPending
    /\ MutexFree
    /\ state' = Snapshot(state, windows, callers[c].hwnd)
    /\ IF state.is_active
       THEN ReturnWith(c, "AlreadyWallpaperMode", "none", Mem,
                       [state |-> state', windows |-> windows])
       ELSE /\ callers' = [callers EXCEPT ![c].pc = "locate"]
            /\ lock' = Some(c)
            /\ entry' = Some(Mem)
    /\ UNCHANGED <<windows, vscreen, probe, session, cycled, ser>>

\* let mut state = STATE.lock().unwrap();
\* if state.is_active { return Err(AlreadyWallpaperMode) }
SawEnter(c) ==
    /\ callers[c].pc = "lock"
    /\ callers[c].op = "set_as_wallpaper"
    /\ NoReturnPending
    /\ MutexFree
    /\ IF state.is_active
       THEN ReturnWith(c, "AlreadyWallpaperMode", "none", Mem, Mem)
       ELSE /\ callers' = [callers EXCEPT ![c].pc = "locate"]
            /\ lock' = Some(c)
            /\ entry' = Some(Mem)
    /\ UNCHANGED <<state, windows, vscreen, probe, session, cycled, ser>>

\* a set_as_wallpaper that takes the snapshot before it resolves the host
SawLocateAfterSnapshot(c) ==
    /\ callers[c].pc = "locate"
    /\ NoReturnPending
    /\ state' = Snapshot(state, windows, callers[c].hwnd)
    /\ \E found \in BOOLEAN, ws \in Topologies :
          LET loc == LocateBackgroundHost(found, ws) IN
          IF loc.tag = "Err"
          THEN /\ ReturnWith(c, loc.val, loc.val, Entered, [state |-> state', windows |-> windows])
               /\ UNCHANGED ser
          ELSE /\ callers' = [callers EXCEPT ![c].pc = "snapshot", ![c].worker_w = loc.val,
                                             ![c].loc = "Ok"]
               /\ ser' = set_as_wallpaper(ser, callers[c].hwnd, loc, vscreen)
               /\ UNCHANGED <<lock, entry>>
    /\ UNCHANGED <<windows, vscreen, probe, session, cycled>>

\* find_progman()?; spawn_worker_w(progman)?; sleep; find_worker_w()?
\* What the shell does with the 0x052C message is not under the program's control:
\* after the delay the enumeration of WorkerW windows is any list `ws`.
SawLocate(c) ==
    /\ callers[c].pc = "locate"
    /\ NoReturnPending
    /\ \E found \in BOOLEAN, ws \in Topologies :
          LET loc == LocateBackgroundHost(found, ws) IN
          IF loc.tag = "Err"
          THEN /\ ReturnWith(c, loc.val, loc.val, Entered, Mem)
               /\ UNCHANGED ser
          ELSE /\ callers' = [callers EXCEPT ![c].pc = "snapshot", ![c].worker_w = loc.val,
                                             ![c].loc = "Ok"]
               /\ ser' = set_as_wallpaper(ser, callers[c].hwnd, loc, vscreen)
               /\ UNCHANGED <<lock, entry>>
    /\ UNCHANGED <<state, windows, vscreen, probe, session, cycled>>

\* store original parent, style, ex style, rect
SawSnapshot(c) ==
    /\ callers[c].pc = "snapshot"
    /\ NoReturnPending
    /\ state' = Snapshot(state, windows, callers[c].hwnd)
    /\ callers' = [callers EXCEPT ![c].pc = "mutate"]
    /\ UNCHANGED <<lock, windows, vscreen, probe, entry, session, cycled, ser>>

\* SetWindowLongW x2, SetParent, SetWindowPos
SawMutate(c) ==
    /\ callers[c].pc = "mutate"
    /\ NoReturnPending
    /\ windows' = Resize(Reparent(StripStyles(state, windows, callers[c].hwnd),
                                  callers[c].hwnd, callers[c].worker_w),
                         callers[c].hwnd, vscreen)
    /\ callers' = [callers EXCEPT ![c].pc = "activate"]
    /\ UNCHANGED <<lock, state, vscreen, probe, entry, session, cycled, ser>>

\* state.worker_w = Some(..); state.is_active = true; Ok(())
SawActivate(c) ==
    /\ callers[c].pc = "activate"
    /\ NoReturnPending
    /\ state' = Activate(state, callers[c].worker_w)
    /\ ReturnWith(c, "Ok", "Ok", Entered, [state |-> state', windows |-> windows])
    /\ session' = [op |-> "set_as_wallpaper", hwnd |-> callers[c].hwnd,
                   target |-> callers[c].hwnd, host |-> callers[c].worker_w,
                   before |-> AttrsOf(Entered.windows, callers[c].hwnd),
                   after |-> AttrsOf(windows, callers[c].hwnd),
                   strayed |-> session.strayed, again |-> cycled,
                   rivals |-> {d \in DOMAIN callers \ {c} :
                                  /\ callers[d].pc = "lock"
                                  /\ callers[d].op = "set_as_wallpaper"
                                  /\ callers[d].hwnd = callers[c].hwnd}]
    /\ UNCHANGED <<windows, vscreen, probe, cycled, ser>>

\* restore_window without the check of is_active
RwEnterUnchecked(c) ==
    /\ callers[c].pc = "lock"
    /\ callers[c].op = "restore_window"
    /\ NoReturnPending
    /\ MutexFree
    /\ callers' = [callers EXCEPT ![c].pc = "restore"]
    /\ lock' = Some(c)
    /\ entry' = Some(Mem)
    /\ ser' = restore_window(ser, callers[c].hwnd)
    /\ UNCHANGED <<state, windows, vscreen, probe, session, cycled>>

\* let mut state = STATE.lock().unwrap();
\* if !state.is_active { return Err(NotWallpaperMode) }
RwEnter(c) ==
    /\ callers[c].pc = "lock"
    /\ callers[c].op = "restore_window"
    /\ NoReturnPending
    /\ MutexFree
    /\ IF ~state.is_active
       THEN /\ ReturnWith(c, "NotWallpaperMode", "none", Mem, Mem)
            /\ UNCHANGED ser
       ELSE /\ callers' = [callers EXCEPT ![c].pc = "restore"]
            /\ lock' = Some(c)
            /\ entry' = Some(Mem)
            /\ ser' = restore_window(ser, callers[c].hwnd)
    /\ UNCHANGED <<state, windows, vscreen, probe, session, cycled>>

\* SetParent(window, None), SetWindowLongW x2, SetWindowPos
RwRestore(c) ==
    /\ callers[c].pc = "restore"
    /\ NoReturnPending
    /\ windows' = RestoreRect(state, RestoreStyles(state, Unparent(windows, callers[c].hwnd),
                                                   callers[c].hwnd),
                              callers[c].hwnd)
    /\ callers' = [callers EXCEPT ![c].pc = "reset"]
    /\ UNCHANGED <<lock, state, vscreen, probe, entry, session, cycled, ser>>

\* reset state; Ok(())
RwReset(c) ==
    /\ callers[c].pc = "reset"
    /\ NoReturnPending
    /\ state' = ResetState(state)
    /\ ReturnWith(c, "Ok", "none", Entered, [state |-> state', windows |-> windows])
    /\ session' = [session EXCEPT !.op = "restore_window", !.hwnd = callers[c].hwnd,
                                  !.after = AttrsOf(windows, callers[c].hwnd),
                                  !.strayed = session.strayed \/ callers[c].hwnd # session.target]
    /\ cycled' = (cycled \/ callers[c].hwnd = session.target)
    /\ UNCHANGED <<windows, vscreen, probe, ser>>

\* an is_wallpaper_mode that leaves is_active false
IsWallpaperModeClearing(c) ==
    /\ callers[c].pc = "lock"
    /\ callers[c].op = "is_wallpaper_mode"
    /\ NoReturnPending
    /\ MutexFree
    /\ state' = [state EXCEPT !.is_active = FALSE]
    /\ ReturnWith(c, IF state.is_active THEN "true" ELSE "false", "none", Mem,
                  [state |-> state', windows |-> windows])
    /\ UNCHANGED <<windows, vscreen, probe, session, cycled, ser>>

\* STATE.lock().unwrap().is_active
IsWallpaperMode(c) ==
    /\ callers[c].pc = "lock"
    /\ callers[c].op = "is_wallpaper_mode"
    /\ NoReturnPending
    /\ MutexFree
    /\ ReturnWith(c, IF state.is_active THEN "true" ELSE "false", "none", Mem, Mem)
    /\ UNCHANGED <<state, windows, vscreen, probe, session, cycled, ser>>

\* the caller takes the result
Return(c) ==
    /\ callers[c].pc = "done"
    /\ callers' = [callers EXCEPT ![c] = Idle]
    /\ session' = [session EXCEPT !.rivals = @ \ {c}]
    /\ UNCHANGED <<lock, state, windows, vscreen, probe, entry, cycled, ser>>

Next ==
    \E c \in DOMAIN callers :
        \/ Call(c)
        \/ SawEnter(c)
        \/ SawLocate(c)
        \/ SawSnapshot(c)
        \/ SawMutate(c)
        \/ SawActivate(c)
        \/ RwEnter(c)
        \/ RwRestore(c)
        \/ RwReset(c)
        \/ IsWallpaperMode(c)
        \/ Return(c)

Spec == Init /\ [][Next]_vars

SpecWindows == InitWindows /\ [][Next]_vars

-----------------------------------------------------------------------------
(* Window calls that fail on a valid window.  Every Get/Set call of the two  *)
(* functions may fail on its own; a call that fails acts as a call on a      *)
(* handle that is no window (a read yields 0 or the default, a write changes *)
(* nothing).  The functions ignore the outcome of every one of these calls.  *)

WindowCalls == {"parent", "style", "exStyle", "rect"}
Outcomes == [WindowCalls -> BOOLEAN]

\* the number of steps of a behaviour in which some window call fails
MaxFaults == 1

\* probe counts the steps in which a call has failed
Faulty(ok) ==
    /\ (\E k \in WindowCalls : ~ok[k]) => probe < MaxFaults
    /\ probe' = IF \E k \in WindowCalls : ~ok[k] THEN probe + 1 ELSE probe

\* the handle as the call sees it
Attempt(ok, h) == IF ok THEN h ELSE NULL

\* the windows after the writes that succeeded: `full` is `wins` after all of them
Written(wins, full, h, ok) ==
    IF IsWindow(wins, h)
    THEN [wins EXCEPT ![h] =
             [parent |-> IF ok["parent"] THEN full[h].parent ELSE wins[h].parent,
              style |-> IF ok["style"] THEN full[h].style ELSE wins[h].style,
              exStyle |-> IF ok["exStyle"] THEN full[h].exStyle ELSE wins[h].exStyle,
              rect |-> IF ok["rect"] THEN full[h].rect ELSE wins[h].rect]]
    ELSE wins

\* store original parent, style, ex style, rect; each read may fail
SawSnapshotFaulty(c) ==
    /\ callers[c].pc = "snapshot"
    /\ NoReturnPending
    /\ \E ok \in Outcomes :
          LET h == callers[c].hwnd IN
          /\ Faulty(ok)
          /\ state' = [state EXCEPT
                          !.original_parent = Snapshot(state, windows, Attempt(ok["parent"], h)).original_parent,
                          !.original_style = Snapshot(state, windows, Attempt(ok["style"], h)).original_style,
                          !.original_ex_style = Snapshot(state, windows, Attempt(ok["exStyle"], h)).original_ex_style,
                          !.original_rect = Snapshot(state, windows, Attempt(ok["rect"], h)).original_rect]
    /\ callers' = [callers EXCEPT ![c].pc = "mutate"]
    /\ UNCHANGED <<lock, windows, vscreen, entry, session, cycled, ser>>

\* a set_as_wallpaper that gives up when SetParent fails
SawMutatePropagating(c) ==
    /\ callers[c].pc = "mutate"
    /\ NoReturnPending
    /\ \E ok \in Outcomes :
          LET h == callers[c].hwnd
              full == Resize(Reparent(StripStyles(state, windows, h), h, callers[c].worker_w),
                             h, vscreen)
          IN  /\ Faulty(ok)
              /\ windows' = Written(windows, full, h, ok)
              /\ IF ok["parent"]
                 THEN /\ callers' = [callers EXCEPT ![c].pc = "activate"]
                      /\ UNCHANGED <<lock, entry>>
                 ELSE ReturnWith(c, "SetParentFailed", "Ok", Entered,
                                 [state |-> state, windows |-> windows'])
    /\ UNCHANGED <<state, vscreen, session, cycled, ser>>

\* SetWindowLongW x2, SetParent, SetWindowPos; each may fail, none is checked
SawMutateFaulty(c) ==
    /\ callers[c].pc = "mutate"
    /\ NoReturnPending
    /\ \E ok \in Outcomes :
          LET h == callers[c].hwnd
              full == Resize(Reparent(StripStyles(state, windows, h), h, callers[c].worker_w),
                             h, vscreen)
          IN  /\ Faulty(ok)
              /\ windows' = Written(windows, full, h, ok)
    /\ callers' = [callers EXCEPT ![c].pc = "activate"]
    /\ UNCHANGED <<lock, state, vscreen, entry, session, cycled, ser>>

\* SetParent(window, None), SetWindowLongW x2, SetWindowPos; each may fail, none is checked
RwRestoreFaulty(c) ==
    /\ callers[c].pc = "restore"
    /\ NoReturnPending
    /\ \E ok \in Outcomes :
          LET h == callers[c].hwnd
              full == RestoreRect(state, RestoreStyles(state, Unparent(windows, h), h), h)
          IN  /\ Faulty(ok)
              /\ windows' = Written(windows, full, h, ok)
    /\ callers' = [callers EXCEPT ![c].pc = "reset"]
    /\ UNCHANGED <<lock, state, vscreen, entry, session, cycled, ser>>

\* one caller, one window that has an owner, window calls that may fail
InitFaulty ==
    /\ callers = [c \in {"ui"} |-> Idle]
    /\ \E a \in WindowAttrs : a.parent = Owner /\ windows = [w \in {1} |-> a]
    /\ vscreen = <<-1920, 0, 3840, 1080>>
    /\ InitCommon
    /\ probe = 0

NextFaulty ==
    \E c \in DOMAIN callers :
        \/ Call(c)
        \/ SawEnter(c)
        \/ SawLocate(c)
        \/ SawSnapshotFaulty(c)
        \/ SawMutateFaulty(c)
        \/ SawActivate(c)
        \/ RwEnter(c)
        \/ RwRestoreFaulty(c)
        \/ RwReset(c)
        \/ IsWallpaperMode(c)
        \/ Return(c)

SpecFaulty == InitFaulty /\ [][NextFaulty]_vars

-----------------------------------------------------------------------------
(* get_all_monitors *)

MonitorInfo(i, x, y, w, h, p) ==
    [index |-> i, x |-> x, y |-> y, width |-> w, height |-> h, is_primary |-> p]

\* rcMonitor of the primary monitor as GetMonitorInfoW may fill it
PrimaryRects ==
    { RECT(0, 0, 1920, 1080), RECT(0, 0, 1280, 720), RECT(0, 0, 2560, 1440),
      RECT(10, 20, 1930, 1100) }

\* (x, y, width, height) as the four GetSystemMetrics calls may answer
Geometries == {-1920, 0} \X {-1080, 0} \X {1280, 1920, 3840} \X {720, 1080, 2160}

\* get_virtual_screen(): the metrics of the virtual screen
get_virtual_screen(vs) == [x |-> vs[1], y |-> vs[2], width |-> vs[3], height |-> vs[4]]

\* the entry pushed for the primary monitor
PrimaryEntry(mi) ==
    MonitorInfo(0, mi.left, mi.top, mi.right - mi.left, mi.bottom - mi.top, TRUE)

\* a test that looks at the size of the virtual screen only
LargerThanPrimary(primary_info, v) ==
    v.width > primary_info.width \/ v.height > primary_info.height

\* vw > primary_info.width || vh > primary_info.height || vx < 0 || vy < 0
SpansMonitors(primary_info, v) ==
    v.width > primary_info.width \/ v.height > primary_info.height \/ v.x < 0 \/ v.y < 0

\* get_all_monitors(): `ok` and `mi` are what GetMonitorInfoW answers
get_all_monitors(ok, mi, vs) ==
    LET monitors == IF ok THEN <<PrimaryEntry(mi)>> ELSE <<>>
        v == get_virtual_screen(vs)
    IN  IF monitors # <<>> /\ SpansMonitors(monitors[1], v)
        THEN <<MonitorInfo(0, v.x, v.y, v.width, v.height, TRUE)>>
        ELSE monitors

\* the get_monitors command
GetMonitors ==
    /\ \E ok \in BOOLEAN, r \in PrimaryRects :
          LET mi == IF ok THEN r ELSE RectDefault IN
          probe' = [ok |-> ok, mi |-> mi, monitors |-> get_all_monitors(ok, mi, vscreen)]
    /\ UNCHANGED <<callers, lock, state, windows, vscreen, entry, session, cycled, ser>>

\* no window is embedded or restored; the displays are in any of the geometries
InitMonitors ==
    /\ callers = [c \in {} |-> Idle]
    /\ windows = [w \in {} |-> RectDefault]
    /\ vscreen \in Geometries
    /\ InitCommon
    /\ probe = None

NextMonitors == GetMonitors

SpecMonitors == InitMonitors /\ [][NextMonitors]_vars

-----------------------------------------------------------------------------
(* The commands of a build for a platform other than Windows (cfg(not(windows))) *)

\* the commands a behaviour invokes
MaxRequests == 4

Unsupported == "Wallpaper mode is only supported on Windows"

\* an enable_wallpaper_mode that does nothing and reports success
enable_wallpaper_mode_silent(window) == Ok("()")

\* fn enable_wallpaper_mode(_window) -> Result<(), String>
enable_wallpaper_mode(window) == Err(Unsupported)

\* fn disable_wallpaper_mode(_window) -> Result<(), String>
disable_wallpaper_mode(window) == Err(Unsupported)

\* fn is_wallpaper_mode() -> bool
is_wallpaper_mode == FALSE

\* fn get_monitors() -> Vec<serde_json::Value>
get_monitors == <<>>

\* the front end invokes a command; probe is the list of the commands and their results
Invoke(cmd, res) ==
    /\ Len(probe) < MaxRequests
    /\ probe' = Append(probe, [cmd |-> cmd, res |-> res])
    /\ UNCHANGED <<callers, lock, state, windows, vscreen, entry, session, cycled, ser>>

EnableWallpaperMode == \E window \in Hwnds : Invoke("enable_wallpaper_mode", enable_wallpaper_mode(window))

DisableWallpaperMode == \E window \in Hwnds : Invoke("disable_wallpaper_mode", disable_wallpaper_mode(window))

QueryWallpaperMode == Invoke("is_wallpaper_mode", is_wallpaper_mode)

QueryMonitors == Invoke("get_monitors", get_monitors)

\* the wallpaper module is not compiled: nothing of it is ever called
InitUnsupported ==
    /\ callers = [c \in {} |-> Idle]
    /\ \E a \in WindowAttrs : windows = [w \in {1} |-> a]
    /\ vscreen \in VirtualScreens
    /\ InitCommon
    /\ probe = <<>>

NextUnsupported ==
    \/ EnableWallpaperMode
    \/ DisableWallpaperMode
    \/ QueryWallpaperMode
    \/ QueryMonitors

SpecUnsupported == InitUnsupported /\ [][NextUnsupported]_vars

-----------------------------------------------------------------------------
(* The locator of set_as_wallpaper (lines 141-147), call by call *)

\* what SendMessageTimeoutW(progman, 0x052C, ..) may report
SendOutcomes == {"acknowledged", "timeout", "failed"}

NoCalls == [FindWindowW |-> 0, SendMessageTimeoutW |-> 0, find_worker_w |-> 0]

\* probe while the locator runs: `hwnd` is the cursor of the loop of find_worker_w
Locating ==
    [pc |-> "find_progman", found |-> FALSE, sent |-> "none", ws |-> <<>>, hwnd |-> NULL,
     worker_w |-> NULL, calls |-> NoCalls, res |-> None]

\* the locator returns `res` to set_as_wallpaper
LocReturn(res) == probe' = [probe EXCEPT !.pc = "done", !.res = Some(res)]

\* let progman = find_progman()?;
LocFindProgman ==
    /\ probe.pc = "find_progman"
    /\ \E found \in BOOLEAN :
          IF find_progman(found).tag = "Err"
          THEN probe' = [probe EXCEPT !.pc = "done", !.res = Some(find_progman(found)),
                                      !.calls.FindWindowW = @ + 1]
          ELSE probe' = [probe EXCEPT !.pc = "spawn_worker_w", !.found = TRUE,
                                      !.calls.FindWindowW = @ + 1]
    /\ UNCHANGED <<callers, lock, state, windows, vscreen, entry, session, cycled, ser>>

\* a spawn_worker_w that reports a send that was not acknowledged
LocSpawnWorkerWChecked ==
    /\ probe.pc = "spawn_worker_w"
    /\ \E sent \in SendOutcomes :
          IF sent = "acknowledged"
          THEN probe' = [probe EXCEPT !.pc = "sleep", !.sent = sent,
                                      !.calls.SendMessageTimeoutW = @ + 1]
          ELSE probe' = [probe EXCEPT !.pc = "done", !.sent = sent, !.res = Some(Err("WindowsApi")),
                                      !.calls.SendMessageTimeoutW = @ + 1]
    /\ UNCHANGED <<callers, lock, state, windows, vscreen, entry, session, cycled, ser>>

\* spawn_worker_w(progman)?: the value of SendMessageTimeoutW is dropped, Ok(())
LocSpawnWorkerW ==
    /\ probe.pc = "spawn_worker_w"
    /\ \E sent \in SendOutcomes :
          probe' = [probe EXCEPT !.pc = "sleep", !.sent = sent,
                                 !.calls.SendMessageTimeoutW = @ + 1]
    /\ UNCHANGED <<callers, lock, state, windows, vscreen, entry, session, cycled, ser>>

\* std::thread::sleep(100 ms): afterwards the WorkerW windows are any list `ws`
LocSleep ==
    /\ probe.pc = "sleep"
    /\ \E ws \in Topologies :
          probe' = [probe EXCEPT !.pc = "find_worker_w", !.ws = ws,
                                 !.calls.find_worker_w = @ + 1]
    /\ UNCHANGED <<callers, lock, state, windows, vscreen, entry, session, cycled, ser>>

\* one turn of the loop of find_worker_w
LocEnumerate ==
    /\ probe.pc = "find_worker_w"
    /\ LET hwnd == FindWindowExW_WorkerW(probe.ws, probe.hwnd) IN
       IF hwnd = NULL
       THEN probe' = [probe EXCEPT !.pc = "found", !.hwnd = hwnd]
       ELSE IF HasShellView(probe.ws, hwnd)
       THEN probe' = [probe EXCEPT !.pc = "found", !.hwnd = hwnd,
                                   !.worker_w = FindWindowExW_WorkerW(probe.ws, hwnd)]
       ELSE probe' = [probe EXCEPT !.hwnd = hwnd]
    /\ UNCHANGED <<callers, lock, state, windows, vscreen, entry, session, cycled, ser>>

\* if worker_w is null { return Err(WorkerWNotFound) }; Ok(worker_w)
LocFound ==
    /\ probe.pc = "found"
    /\ LocReturn(IF probe.worker_w = NULL THEN Err("WorkerWNotFound") ELSE Ok(probe.worker_w))
    /\ UNCHANGED <<callers, lock, state, windows, vscreen, entry, session, cycled, ser>>

\* set_as_wallpaper has passed the check of is_active
InitLocator ==
    /\ callers = [c \in {} |-> Idle]
    /\ \E a \in WindowAttrs : windows = [w \in {1} |-> a]
    /\ vscreen \in VirtualScreens
    /\ InitCommon
    /\ probe = Locating

NextLocator ==
    \/ LocFindProgman
    \/ LocSpawnWorkerW
    \/ LocSleep
    \/ LocEnumerate
    \/ LocFound

SpecLocator == InitLocator /\ [][NextLocator]_vars

-----------------------------------------------------------------------------
(* Progress: a thread inside a function keeps running, and a thread that waits *)
(* for the mutex gets it when the mutex is free again and again               *)

\* a step of a call that holds the mutex, or the hand-over of a result
Proceed(c) ==
    \/ SawLocate(c)
    \/ SawSnapshot(c)
    \/ SawMutate(c)
    \/ SawActivate(c)
    \/ RwRestore(c)
    \/ RwReset(c)
    \/ Return(c)

\* STATE.lock() returns
Acquire(c) ==
    \/ SawEnter(c)
    \/ RwEnter(c)
    \/ IsWallpaperMode(c)

\* the application's window with an owner, two monitors
InitLive ==
    /\ callers = [c \in Callers |-> Idle]
    /\ \E a \in WindowAttrs : a.parent = Owner /\ windows = [w \in {1} |-> a]
    /\ vscreen = <<-1920, 0, 3840, 1080>>
    /\ InitCommon
    /\ probe = None

SpecLive ==
    /\ InitLive
    /\ [][Next]_vars
    /\ \A c \in Callers : WF_vars(Proceed(c)) /\ SF_vars(Acquire(c))

-----------------------------------------------------------------------------
(* Properties *)

Done(c) == callers[c].pc = "done"

\* the call of c is between taking the lock and returning
InCall(c) == callers[c].pc \in {"locate", "snapshot", "mutate", "activate", "restore", "reset"}

\* the last successful transition is a restore of the window that was embedded
CycleCompleted ==
    /\ session.op = "restore_window"
    /\ session.hwnd = session.target
    /\ session.before # None

\* the bits 0..31 set in the masks
ChromeBits ==
    {i \in 0..31 : Bit(WS_CAPTION + WS_THICKFRAME + WS_MINIMIZEBOX + WS_MAXIMIZEBOX + WS_SYSMENU, i) = 1}
EdgeBits ==
    {i \in 0..31 : Bit(WS_EX_DLGMODALFRAME + WS_EX_CLIENTEDGE + WS_EX_STATICEDGE, i) = 1}

\* is p one of the WorkerW windows
IsWorkerW(p) == \E i \in 1..MaxWorkers : p = WorkerHandle(i)

Embedded == {w \in DOMAIN windows : IsWorkerW(windows[w].parent)}

\* C1: when restore_window(w) succeeds after set_as_wallpaper(w) succeeded, the window
\* w has the style, extended style and rectangle it had when set_as_wallpaper(w) began;
\* this holds in every cycle.
RoundTrip ==
    CycleCompleted =>
        /\ session.after # None
        /\ session.after[1].style = session.before[1].style
        /\ session.after[1].exStyle = session.before[1].exStyle
        /\ session.after[1].rect = session.before[1].rect

\* a second cycle has completed, and the embed of that cycle had changed the window
RoundTripWitness ==
    /\ CycleCompleted
    /\ session.again
    /\ \E c \in DOMAIN callers : Done(c) /\ callers[c].op = "restore_window" /\ callers[c].res = "Ok"
    /\ session.before[1].style # NewStyle([original_style |-> session.before[1].style])

\* C2: set_as_wallpaper called while is_active returns AlreadyWallpaperMode and
\* restore_window called while not is_active returns NotWallpaperMode; the call leaves
\* the state and every window as it found them and does not run the locator.
StateExclusivity ==
    \A c \in DOMAIN callers :
        Done(c) =>
            /\ (callers[c].op = "set_as_wallpaper" /\ callers[c].wasActive) =>
                  /\ callers[c].res = "AlreadyWallpaperMode"
                  /\ callers[c].clean
                  /\ callers[c].loc = "none"
            /\ (callers[c].op = "restore_window" /\ ~callers[c].wasActive) =>
                  /\ callers[c].res = "NotWallpaperMode"
                  /\ callers[c].clean
                  /\ callers[c].loc = "none"

\* a set_as_wallpaper has returned AlreadyWallpaperMode
StateExclusivityWitness ==
    \E c \in DOMAIN callers :
        /\ Done(c)
        /\ callers[c].op = "set_as_wallpaper"
        /\ callers[c].wasActive
        /\ callers[c].res = "AlreadyWallpaperMode"
        /\ session.before # None

\* C3: when the locator fails, set_as_wallpaper returns the locator's error and leaves
\* the state and every window as it found them, the state inactive; and until the
\* locator has returned a host the call has written nothing.
ResolveBeforeMutate ==
    \A c \in DOMAIN callers :
        /\ (Done(c) /\ callers[c].op = "set_as_wallpaper"
                /\ callers[c].loc \in {"ProgmanNotFound", "WorkerWNotFound"}) =>
              /\ callers[c].res = callers[c].loc
              /\ callers[c].clean
              /\ ~state.is_active
        /\ callers[c].pc = "locate" => (entry # None /\ entry[1] = Mem)
        /\ (InCall(c) /\ callers[c].op = "set_as_wallpaper" /\ Mem # Entered) =>
              IsWorkerW(callers[c].worker_w)

\* a set_as_wallpaper on a window has returned WorkerWNotFound
ResolveBeforeMutateWitness ==
    \E c \in DOMAIN callers :
        /\ Done(c)
        /\ callers[c].op = "set_as_wallpaper"
        /\ callers[c].hwnd # NULL
        /\ callers[c].res = "WorkerWNotFound"

\* C4 as claimed: at most one window is parented under a WorkerW, whatever handles
\* the calls are given.
SingleEmbedded == Cardinality(Embedded) <= 1

\* C4 as amended: at most one window is parented under a WorkerW as long as every
\* successful restore_window was given the handle of the set_as_wallpaper before it.
SingleEmbeddedWhenMatched == ~session.strayed => Cardinality(Embedded) <= 1

\* the second window is embedded after the first was embedded and restored
SingleEmbeddedWitness ==
    /\ ~session.strayed
    /\ cycled
    /\ session.op = "set_as_wallpaper"
    /\ session.target = 2
    /\ Embedded = {2}

\* C5: after a successful set_as_wallpaper(w) the parent of w is the WorkerW the
\* locator returned, its rectangle is the virtual screen, its style is the original
\* with exactly the caption, thick frame, minimize box, maximize box and system menu
\* bits cleared, its extended style the original with exactly the dialog frame,
\* client edge and static edge bits cleared, and is_active is true.
EmbedPostcondition ==
    (session.op = "set_as_wallpaper" /\ session.before # None) =>
        LET b == session.before[1]
            a == session.after[1]
        IN  /\ IsWorkerW(session.host)
            /\ a.parent = session.host
            /\ a.rect.left = vscreen[1]
            /\ a.rect.top = vscreen[2]
            /\ a.rect.right - a.rect.left = vscreen[3]
            /\ a.rect.bottom - a.rect.top = vscreen[4]
            /\ \A i \in 0..31 :
                  Bit(a.style, i) = IF i \in ChromeBits THEN 0 ELSE Bit(b.style, i)
            /\ \A i \in 0..31 :
                  Bit(a.exStyle, i) = IF i \in EdgeBits THEN 0 ELSE Bit(b.exStyle, i)
            /\ state.is_active

\* a window with a system menu and a client edge has been embedded and
\* is_wallpaper_mode has answered true
EmbedPostconditionWitness ==
    /\ session.op = "set_as_wallpaper"
    /\ session.before # None
    /\ Bit(session.before[1].style, 19) = 1
    /\ Bit(session.before[1].exStyle, 9) = 1
    /\ \E c \in DOMAIN callers : Done(c) /\ callers[c].res = "true"

\* C6: after set_as_wallpaper(w) and restore_window(w) the parent of w is the parent
\* it had when set_as_wallpaper(w) began.
ParentRestored == CycleCompleted => session.after[1].parent = session.before[1].parent

\* C7: at most one call is between taking the lock and returning, that call holds the
\* lock, and whenever no call holds the lock the state and the windows are those of
\* running the calls one at a time in the order they took the lock.
MutualExclusion ==
    /\ \A c, d \in DOMAIN callers : (InCall(c) /\ InCall(d)) => c = d
    /\ \A c \in DOMAIN callers : InCall(c) => lock = Some(c)
    /\ lock = None => Mem = ser

\* a restore_window waits for the lock while a set_as_wallpaper is changing the window
MutualExclusionWitness ==
    \E c, d \in DOMAIN callers :
        /\ callers[c].pc = "activate"
        /\ callers[c].hwnd # NULL
        /\ callers[d].pc = "lock"
        /\ callers[d].op = "restore_window"

\* C8: whenever no call holds the lock and is_active is false, every other field of
\* the state is unset.
InactiveStateCleared == (lock = None /\ ~state.is_active) => state = StateInit

\* C9: whenever is_active is true the snapshot is populated: original_rect and
\* worker_w are present and the stored styles and rectangle are those the window had
\* when the set_as_wallpaper that activated the state began.
ActiveSnapshot ==
    state.is_active =>
        /\ state.original_rect # None
        /\ state.original_parent # None
        /\ session.op = "set_as_wallpaper"
        /\ state.worker_w = Some(session.host)
        /\ session.before # None =>
              /\ state.original_style = session.before[1].style
              /\ state.original_ex_style = session.before[1].exStyle
              /\ state.original_rect = Some(session.before[1].rect)

\* the state is active, a later set_as_wallpaper has failed and a restore_window
\* is under way
ActiveSnapshotWitness ==
    /\ state.is_active
    /\ session.before # None
    /\ \E c, d \in DOMAIN callers :
          /\ callers[c].pc = "reset"
          /\ callers[d].pc = "lock"
          /\ session.again

\* C10: set_as_wallpaper or restore_window given a null handle returns
\* InvalidWindowHandle and changes nothing (unless the state check or the locator
\* has already failed the call).
InvalidHandleRejected ==
    \A c \in DOMAIN callers :
        (/\ Done(c)
         /\ callers[c].op \in {"set_as_wallpaper", "restore_window"}
         /\ callers[c].hwnd = NULL
         /\ callers[c].res \notin {"AlreadyWallpaperMode", "NotWallpaperMode",
                                   "ProgmanNotFound", "WorkerWNotFound"}) =>
            /\ callers[c].res = "InvalidWindowHandle"
            /\ callers[c].clean

\* C11: once the locator has returned a host, set_as_wallpaper returns Ok and
\* is_active is true whatever window calls failed; restore_window entered with
\* is_active true returns Ok and is_active is false whatever window calls failed.
BestEffortNeverFails ==
    \A c \in DOMAIN callers :
        Done(c) =>
            /\ (callers[c].op = "set_as_wallpaper" /\ callers[c].loc = "Ok") =>
                  (callers[c].res = "Ok" /\ state.is_active)
            /\ (callers[c].op = "restore_window" /\ callers[c].wasActive) =>
                  (callers[c].res = "Ok" /\ ~state.is_active)

\* restore_window has returned Ok for a window whose SetParent(window, None) failed:
\* the window is still a child of the WorkerW and is_active is false
BestEffortNeverFailsWitness ==
    \E c \in DOMAIN callers :
        /\ Done(c)
        /\ callers[c].op = "restore_window"
        /\ callers[c].res = "Ok"
        /\ callers[c].hwnd = 1
        /\ session.target = 1
        /\ IsWorkerW(windows[1].parent)
        /\ callers[c].wasActive
        /\ ~state.is_active
        /\ probe = MaxFaults

\* C12: every get_all_monitors() returns at least one entry, and exactly one of the
\* entries has is_primary true, whatever GetMonitorInfoW and the screen metrics answer.
MonitorInventory ==
    probe # None =>
        /\ Len(probe.monitors) >= 1
        /\ Cardinality({i \in 1..Len(probe.monitors) : probe.monitors[i].is_primary}) = 1

\* C19: when GetMonitorInfoW succeeds, get_all_monitors() returns one entry with index 0
\* and is_primary true: the virtual screen if vw > pw or vh > ph or vx < 0 or vy < 0,
\* and (left, top, right - left, bottom - top) of the primary monitor otherwise.
MonitorSubstitution ==
    (probe # None /\ probe.ok) =>
        LET pw == probe.mi.right - probe.mi.left
            ph == probe.mi.bottom - probe.mi.top
        IN  /\ Len(probe.monitors) = 1
            /\ probe.monitors[1].index = 0
            /\ probe.monitors[1].is_primary
            /\ IF vscreen[3] > pw \/ vscreen[4] > ph \/ vscreen[1] < 0 \/ vscreen[2] < 0
               THEN /\ probe.monitors[1].x = vscreen[1]
                    /\ probe.monitors[1].y = vscreen[2]
                    /\ probe.monitors[1].width = vscreen[3]
                    /\ probe.monitors[1].height = vscreen[4]
               ELSE /\ probe.monitors[1].x = probe.mi.left
                    /\ probe.monitors[1].y = probe.mi.top
                    /\ probe.monitors[1].width = pw
                    /\ probe.monitors[1].height = ph

\* the virtual screen is no larger than the primary monitor and lies left of it:
\* the virtual screen has been reported
MonitorSubstitutionWitness ==
    /\ probe # None
    /\ probe.ok
    /\ vscreen[1] < 0
    /\ vscreen[3] <= probe.mi.right - probe.mi.left
    /\ vscreen[4] <= probe.mi.bottom - probe.mi.top
    /\ probe.mi.left # 0
    /\ probe.monitors[1].x = vscreen[1]

\* a caller's call returns in this step
Returns(c) == callers[c].pc # "done" /\ callers'[c].pc = "done"

\* C13: is_wallpaper_mode leaves STATE and every window as they are and answers
\* is_active; is_active changes only in a step in which set_as_wallpaper or
\* restore_window returns Ok.  Hence the calls of is_wallpaper_mode between two such
\* steps all give one answer, whatever calls fail or wait beside them.
QueryHasNoEffect ==
    [][/\ \A c \in DOMAIN callers :
             (callers[c].op = "is_wallpaper_mode" /\ Returns(c))
                => /\ state' = state
                   /\ windows' = windows
                   /\ callers'[c].res = (IF state.is_active THEN "true" ELSE "false")
       /\ state'.is_active # state.is_active
             => \E c \in DOMAIN callers :
                   /\ Returns(c)
                   /\ callers'[c].op \in {"set_as_wallpaper", "restore_window"}
                   /\ callers'[c].res = "Ok"]_vars

\* is_wallpaper_mode has answered true and changed nothing, while a set_as_wallpaper
\* of the other caller, which is going to fail, has been called and has not returned
QueryHasNoEffectWitness ==
    \E c, d \in DOMAIN callers :
        /\ Done(c)
        /\ callers[c].op = "is_wallpaper_mode"
        /\ callers[c].res = "true"
        /\ callers[c].clean
        /\ session.op = "set_as_wallpaper"
        /\ callers[d].pc = "lock"
        /\ callers[d].op = "set_as_wallpaper"

\* C14: in a build for another platform every enable_wallpaper_mode and every
\* disable_wallpaper_mode returns the error "only supported on Windows" and never Ok,
\* is_wallpaper_mode returns false after any commands, get_monitors returns an empty
\* list, and no window changes.
UnsupportedPlatform ==
    /\ \A i \in 1..Len(probe) :
          /\ probe[i].cmd \in {"enable_wallpaper_mode", "disable_wallpaper_mode"}
                => (probe[i].res.tag = "Err" /\ probe[i].res.val = Unsupported)
          /\ probe[i].cmd = "is_wallpaper_mode" => probe[i].res = FALSE
          /\ probe[i].cmd = "get_monitors" => Len(probe[i].res) = 0
    /\ state = StateInit
    /\ \A w \in DOMAIN windows : windows[w] \in WindowAttrs

\* is_wallpaper_mode has answered false after an enable_wallpaper_mode and a
\* disable_wallpaper_mode have failed, and get_monitors has answered
UnsupportedPlatformWitness ==
    /\ Len(probe) = MaxRequests
    /\ probe[1].cmd = "enable_wallpaper_mode"
    /\ probe[2].cmd = "disable_wallpaper_mode"
    /\ probe[3].cmd = "is_wallpaper_mode"
    /\ probe[3].res = FALSE
    /\ probe[4].cmd = "get_monitors"

\* the WorkerW windows of the list that have a SHELLDLL_DefView child
Holders(ws) == {i \in 1..Len(ws) : ws[i]}

\* the smallest element of a non-empty set of numbers
Least(S) == CHOOSE i \in S : \A j \in S : i <= j

\* the first window after the first holder that has no SHELLDLL_DefView child, or NULL
FirstBareAfterHolder(ws) ==
    IF Holders(ws) = {} THEN NULL
    ELSE LET bare == {j \in (Least(Holders(ws)) + 1)..Len(ws) : ~ws[j]} IN
         IF bare = {} THEN NULL ELSE WorkerHandle(Least(bare))

\* C15: for every list of WorkerW windows find_worker_w returns the first window
\* after the one with a SHELLDLL_DefView child that has no such child itself, and
\* Err(WorkerWNotFound) exactly when there is no such window.
LocatorSelection ==
    (probe.pc = "done" /\ probe.found) =>
        probe.res = Some(IF FirstBareAfterHolder(probe.ws) = NULL
                         THEN Err("WorkerWNotFound")
                         ELSE Ok(FirstBareAfterHolder(probe.ws)))

\* C18: when Progman is found the 0x052C message is sent once, before the WorkerW
\* windows are enumerated; whether the send is acknowledged, times out or fails, the
\* enumeration runs once and its result is the result of the locator; FindWindowW,
\* the send and the enumeration each run at most once in a call.
TriggerBestEffort ==
    /\ \A f \in DOMAIN probe.calls : probe.calls[f] <= 1
    /\ probe.calls.find_worker_w = 1 => probe.calls.SendMessageTimeoutW = 1
    /\ probe.pc = "done" =>
          /\ probe.res = Some(LocateBackgroundHost(probe.found, probe.ws))
          /\ probe.calls.FindWindowW = 1
          /\ IF probe.found
             THEN /\ probe.calls.SendMessageTimeoutW = 1
                  /\ probe.calls.find_worker_w = 1
                  /\ probe.res = Some(find_worker_w(probe.ws))
             ELSE /\ probe.calls.SendMessageTimeoutW = 0
                  /\ probe.calls.find_worker_w = 0

\* the send has timed out and the locator has returned a WorkerW all the same
TriggerBestEffortWitness ==
    /\ probe.pc = "done"
    /\ probe.sent = "timeout"
    /\ probe.res # None
    /\ probe.res[1].tag = "Ok"

\* C16: when a set_as_wallpaper(w) returns Ok while set_as_wallpaper(w) calls of other
\* callers, made for the same window, wait for the mutex, each of those calls returns
\* AlreadyWallpaperMode and changes nothing: the snapshot stays the one the first call
\* took, the style, extended style and rectangle w had before it was embedded, and a
\* restore_window(w) that follows gives w that style, extended style and rectangle.
RacingEmbeds ==
    \A d \in session.rivals :
        /\ (session.op = "set_as_wallpaper" /\ Done(d)) =>
              /\ callers[d].res = "AlreadyWallpaperMode"
              /\ callers[d].clean
        /\ (session.op = "set_as_wallpaper" /\ session.before # None) =>
              /\ state.original_style = session.before[1].style
              /\ state.original_ex_style = session.before[1].exStyle
              /\ state.original_rect = Some(session.before[1].rect)
        /\ (session.op = "restore_window" /\ session.hwnd = session.target
              /\ session.before # None) =>
              /\ session.after # None
              /\ session.after[1].style = session.before[1].style
              /\ session.after[1].exStyle = session.before[1].exStyle
              /\ session.after[1].rect = session.before[1].rect

\* the call that lost the race has returned AlreadyWallpaperMode, and the snapshot
\* holds the style the window had before the winner stripped it
RacingEmbedsWitness ==
    \E d \in session.rivals :
        /\ Done(d)
        /\ callers[d].op = "set_as_wallpaper"
        /\ callers[d].res = "AlreadyWallpaperMode"
        /\ session.op = "set_as_wallpaper"
        /\ session.before # None
        /\ windows[session.target].style # session.before[1].style
        /\ state.original_style = session.before[1].style

\* C20: the calls of set_as_wallpaper and restore_window that return Ok alternate,
\* the first of them being a set_as_wallpaper, and is_wallpaper_mode returns true
\* exactly when the last of them so far is a set_as_wallpaper.
Alternation ==
    [][\A c \in DOMAIN callers :
          Returns(c) =>
             /\ (callers'[c].op = "set_as_wallpaper" /\ callers'[c].res = "Ok")
                   => session.op # "set_as_wallpaper"
             /\ (callers'[c].op = "restore_window" /\ callers'[c].res = "Ok")
                   => session.op = "set_as_wallpaper"
             /\ callers'[c].op = "is_wallpaper_mode"
                   => (callers'[c].res = "true" <=> session.op = "set_as_wallpaper")
             /\ callers'[c].res = "Ok" => session'.op = callers'[c].op
             /\ callers'[c].res # "Ok" => session'.op = session.op]_vars

\* is_wallpaper_mode has answered false after a set_as_wallpaper and a restore_window
\* have returned Ok, while a set_as_wallpaper of the other caller is under way
AlternationWitness ==
    \E c, d \in DOMAIN callers :
        /\ Done(c)
        /\ callers[c].op = "is_wallpaper_mode"
        /\ callers[c].res = "false"
        /\ session.op = "restore_window"
        /\ callers[d].pc = "lock"
        /\ callers[d].op = "set_as_wallpaper"

=============================================================================
